---------------------------- MODULE Spec2Model ----------------------------
(***************************************************************************)
(* Allocation engine of the iFood delivery optimizer                       *)
(* (projeto_ifood/ifood_optimizer.py, projeto_ifood/advanced_features.py). *)
(*                                                                         *)
(* The state is the optimizer object (the couriers' and orders' tables,    *)
(* the model, its decision variables, the last status, resultado) and the  *)
(* analyzer object (analises, and the locals of the scenario method that   *)
(* is running).  The GLPK solver is an external process: a solve is        *)
(* submitted in one step and returns in another.                           *)
(***************************************************************************)
EXTENDS Integers, FiniteSets, Sequences, TLC

(***************************************************************************)
(* Bounds of the model: the number of orders and the largest capacity of a *)
(* courier.  There are two couriers.                                       *)
(***************************************************************************)
NumPedidos == 2
MaxCapacidade == 2

\* the rows of the loaded tables
LinhasEntregadores == {1, 2}
LinhasPedidos == 1..NumPedidos

(***************************************************************************)
(* Input data the tables are drawn from.  Speeds divide 60 * distance, so  *)
(* that (distancia / velocidade) * 60 is a whole number of minutes.        *)
(***************************************************************************)
Velocidades == {<<60, 30>>}
Distancias == {10, 20}
Prioridades == {1, 2, 3}
TemposPreparo == {10}
TemposCliente == {5}
FaixasCapacidade == {<<1, MaxCapacidade>>}
Prazos == {<<30, 45>>, <<30, 60>>}

VARIABLES
    entregadores,         \* self.entregadores: courier -> [capacidade, velocidade]
    pedidos,              \* self.pedidos: order -> its columns
    modelo,               \* self.modelo: the LpProblem built by criar_modelo
    x_vars,               \* self.x_vars: the pairs (i, j) whose value is 1
    t_vars,               \* self.t_vars: the value of T[j]
    status,               \* the status modelo.solve returned
    resultado,            \* self.resultado
    retorno,              \* what the last resolver_modelo returned
    fase,                 \* phase of the solve attempt on self.modelo
    pc,                   \* position of the calling flow
    chamador,             \* the flow that called criar_modelo/resolver_modelo
    etapa,                \* position in executar_analise_completa: its methods are
                          \* called in its order, any of them possibly left out
    analises,             \* analisador.analises
    capacidade_original,  \* local of the running scenario method
    faixa,                \* sweep: the capacity being tested and the last one
    resultados,           \* sweep: the records collected so far
    cenarios,             \* comparar_cenarios: the table being built
    restrito,             \* otimizacao_com_restricoes_tempo: its own model and solve
    capacidade_carregada, \* history: the 'Capacidade Máxima' column as it was loaded
    bruto,                \* history: the tables as carregar_dados read them
    preprocessado,        \* what preprocessar_dados returned
    tarefas,              \* two scenario methods running at once: their positions
                          \* and their locals
    avisos                \* the AVISO lines extrair_resultado printed: the number of
                          \* orders each reports as not allocated

vars == <<entregadores, pedidos, modelo, x_vars, t_vars, status, resultado,
          retorno, fase, pc, chamador, etapa, analises, capacidade_original,
          faixa, resultados, cenarios, restrito, capacidade_carregada,
          bruto, preprocessado, tarefas, avisos>>

otimizador == <<modelo, x_vars, t_vars, status, resultado, retorno, fase>>
locais == <<capacidade_original, faixa, resultados, cenarios>>
tabelas == <<pedidos, capacidade_carregada, bruto, preprocessado>>
entrada == <<tabelas, avisos>>
dados == <<entrada, tarefas>>

\* criar_modelo: I = range(len(self.entregadores)), J = range(len(self.pedidos))
Entregadores == DOMAIN entregadores
Pedidos == DOMAIN pedidos

Nenhum == [def |-> FALSE]

\* value() of a variable that no solve has assigned (Python's None)
SemValor == 0 - 1

RECURSIVE Soma(_, _)
Soma(f, S) ==
    IF S = {} THEN 0
    ELSE LET e == CHOOSE e \in S : TRUE IN f[e] + Soma(f, S \ {e})

Capacidades == [i \in Entregadores |-> entregadores[i].capacidade]

(***************************************************************************)
(* Cost Estimator.                                                         *)
(***************************************************************************)
\* the float that a division by zero gives (numpy: inf)
Infinito == 1000000

calcular_tempo_deslocamento(i, j) ==
    IF entregadores[i].velocidade = 0
    THEN Infinito
    ELSE (pedidos[j].distancia_km * 60) \div entregadores[i].velocidade

TempoEntrega(i, j) ==
    calcular_tempo_deslocamento(i, j) + pedidos[j].tempo_preparo_min
        + pedidos[j].tempo_deslocamento_min

(***************************************************************************)
(* Model Builder: the constraints and the objective of criar_modelo, over  *)
(* an assignment x (the set of pairs with x[i,j] = 1) and times T.         *)
(***************************************************************************)
Atribuicoes == SUBSET (Entregadores \X Pedidos)

\* Faulty variant: R1 written with <= 1 instead of == 1.
AtribuicaoNoMaximoUma(x) ==
    \A j \in Pedidos : Cardinality({i \in Entregadores : <<i, j>> \in x}) <= 1

AtribuicaoUnica(x) ==
    \A j \in Pedidos : Cardinality({i \in Entregadores : <<i, j>> \in x}) = 1

\* Faulty variant: R3 with < instead of <=.
CapacidadeMaximaEstrita(x, caps) ==
    \A i \in Entregadores : Cardinality({j \in Pedidos : <<i, j>> \in x}) < caps[i]

\* Faulty variant: R3 off by one.
CapacidadeMaximaMaisUm(x, caps) ==
    \A i \in Entregadores : Cardinality({j \in Pedidos : <<i, j>> \in x}) <= caps[i] + 1

CapacidadeMaxima(x, caps) ==
    \A i \in Entregadores : Cardinality({j \in Pedidos : <<i, j>> \in x}) <= caps[i]

\* Faulty variant: R2 with the travel time alone.
CalculoTempoSoDeslocamento(x) ==
    [j \in Pedidos |->
        Soma([i \in Entregadores |->
                 IF <<i, j>> \in x THEN calcular_tempo_deslocamento(i, j) ELSE 0],
             Entregadores)]

CalculoTempo(x) ==
    [j \in Pedidos |->
        Soma([i \in Entregadores |-> IF <<i, j>> \in x THEN TempoEntrega(i, j) ELSE 0],
             Entregadores)]

\* Faulty variant: the first objective (sum of T[j]) is never replaced by the weighted one.
ObjetivoSemPrioridade(T) == Soma(T, Pedidos)

ObjetivoPonderado(T) ==
    Soma([j \in Pedidos |-> T[j] * pedidos[j].prioridade], Pedidos)


\* Faulty variant: criar_modelo without R1.
RestricoesSemAtribuicaoUnica(x, caps) == CapacidadeMaxima(x, caps)

\* criar_modelo, R1 and R3 (R2 defines T and is CalculoTempo)
RestricoesBase(x, caps) ==
    AtribuicaoUnica(x) /\ CapacidadeMaxima(x, caps)

\* Faulty variant: the branch for priority 2 is missing.
RestricoesTempoSoExpresso(x, tempo_max_expresso, tempo_max_prioritario) ==
    \A j \in Pedidos :
        pedidos[j].prioridade = 3 => CalculoTempo(x)[j] <= tempo_max_expresso

\* Faulty variant: the two deadlines taken one for the other.
RestricoesTempoTrocadas(x, tempo_max_expresso, tempo_max_prioritario) ==
    \A j \in Pedidos :
        /\ pedidos[j].prioridade = 3 => CalculoTempo(x)[j] <= tempo_max_prioritario
        /\ pedidos[j].prioridade = 2 => CalculoTempo(x)[j] <= tempo_max_expresso

\* otimizacao_com_restricoes_tempo: the deadline constraints by priority
RestricoesTempo(x, tempo_max_expresso, tempo_max_prioritario) ==
    \A j \in Pedidos :
        /\ pedidos[j].prioridade = 3 => CalculoTempo(x)[j] <= tempo_max_expresso
        /\ pedidos[j].prioridade = 2 => CalculoTempo(x)[j] <= tempo_max_prioritario

\* Faulty variant: the deadline model without R3.
RestricoesRestritoSemCapacidade(x, m) ==
    /\ AtribuicaoUnica(x)
    /\ RestricoesTempo(x, m.tempo_max_expresso, m.tempo_max_prioritario)

RestricoesRestrito(x, m) ==
    /\ AtribuicaoUnica(x)
    /\ CapacidadeMaxima(x, m.capacidade)
    /\ RestricoesTempo(x, m.tempo_max_expresso, m.tempo_max_prioritario)

ViaveisBase(m) == {x \in Atribuicoes : RestricoesBase(x, m.capacidade)}
ViaveisRestrito(m) == {x \in Atribuicoes : RestricoesRestrito(x, m)}

(***************************************************************************)
(* Solver Adapter.  GLPK run to completion returns a feasible assignment   *)
(* of least objective, or reports that there is none.                      *)
(***************************************************************************)
\* Faulty variant: the problem is created with LpMaximize.
Piores(V) ==
    LET objetivo == [x \in V |-> ObjetivoPonderado(CalculoTempo(x))]
    IN  {x \in V : \A y \in V : objetivo[x] >= objetivo[y]}

Otimas(V) ==
    LET objetivo == [x \in V |-> ObjetivoPonderado(CalculoTempo(x))]
    IN  {x \in V : \A y \in V : objetivo[x] <= objetivo[y]}

\* The phase of the solve attempt that a returned status stands for.
FaseDoStatus(s) ==
    CASE s = "Optimal" -> "Optimal"
      [] s = "Infeasible" -> "Infeasible"
      [] s = "Unbounded" -> "Unbounded"
      [] OTHER -> "TimedOut"

(***************************************************************************)
(* Result Extractor: extrair_resultado on the variables' values.  A        *)
(* courier's ID and an order's pedido_id are taken to be their indices; a  *)
(* mean (a float quotient) is kept as the pair <<sum, count>>.             *)
(***************************************************************************)
Media(total, n) == <<total, n>>

Alocacoes(x, T) ==
    {[entregador_idx |-> a[1], pedido_idx |-> a[2],
      prioridade |-> pedidos[a[2]].prioridade, tempo_entrega |-> T[a[2]]] : a \in x}

extrair_resultado(x, T) ==
    [def |-> TRUE,
     valor_objetivo |-> IF \E j \in Pedidos : T[j] = SemValor
                        THEN SemValor
                        ELSE ObjetivoPonderado(T),
     tempo_total |-> Soma(T, {j \in Pedidos : T[j] # SemValor}),
     tempo_medio |-> Media(Soma(T, {j \in Pedidos : T[j] # SemValor}),
                           Cardinality(Pedidos)),
     alocacoes |-> Alocacoes(x, T),
     num_entregadores_usados |-> Cardinality({a[1] : a \in x}),
     num_pedidos_alocados |-> Cardinality(x),
     num_pedidos_total |-> Cardinality(Pedidos)]

\* extrair_resultado's last lines: the AVISO it prints for a Solution
Aviso(r) ==
    IF r.num_pedidos_alocados # r.num_pedidos_total
    THEN <<r.num_pedidos_total - r.num_pedidos_alocados>>
    ELSE <<>>

\* Faulty variant: only the Infeasible branch returns False.
RetornoSalvoInviavel(s) == s # "Infeasible"

\* Faulty variant: the final else branch extracts and returns True.
RetornoAceitaIndefinido(s) == s \in {"Optimal", "Undefined"}

\* resolver_modelo after modelo.solve returned: what it returns for a status
RetornoDoStatus(s) == s = "Optimal"

(***************************************************************************)
(* Initial state: the tables are loaded and preprocessed, nothing is       *)
(* built or solved.                                                        *)
(***************************************************************************)
InitAnalisador ==
    /\ \E capacidade \in [LinhasEntregadores -> 0..MaxCapacidade],
          velocidade \in Velocidades :
          entregadores = [i \in LinhasEntregadores |->
                             [capacidade |-> capacidade[i], velocidade |-> velocidade[i]]]
    /\ pedidos \in [LinhasPedidos -> [prioridade : Prioridades,
                                distancia_km : Distancias,
                                tempo_preparo_min : TemposPreparo,
                                tempo_deslocamento_min : TemposCliente]]
    /\ modelo = Nenhum
    /\ x_vars = {}
    /\ t_vars = [j \in Pedidos |-> SemValor]
    /\ status = "Not Solved"
    /\ resultado = Nenhum
    /\ retorno = FALSE
    /\ fase = "None"
    /\ pc = "idle"
    /\ chamador = "none"
    /\ etapa = 0
    /\ analises = [sensibilidade_capacidade |-> Nenhum,
                   otimizacao_restrita |-> Nenhum,
                   comparacao_cenarios |-> Nenhum]
    /\ capacidade_original = Nenhum
    /\ faixa = Nenhum
    /\ resultados = <<>>
    /\ cenarios = Nenhum
    /\ restrito = Nenhum
    /\ capacidade_carregada = Capacidades
    /\ bruto = Nenhum
    /\ preprocessado = TRUE
    /\ avisos = <<>>

Init == InitAnalisador /\ tarefas = Nenhum

(***************************************************************************)
(* criar_modelo: a new problem with new, unassigned variables; the         *)
(* capacity constraints take the capacities of the table as it is now.     *)
(***************************************************************************)
criar_modelo(caps) ==
    /\ modelo' = [def |-> TRUE, completo |-> TRUE, capacidade |-> caps]
    /\ x_vars' = {}
    /\ t_vars' = [j \in Pedidos |-> SemValor]
    /\ fase' = "Built"
    /\ UNCHANGED <<status, resultado, retorno>>

\* main / exemplo_completo / executar_analise_completa: criar_modelo on the loaded data
Principal_CriarModelo ==
    /\ pc = "idle" /\ etapa < 1
    /\ criar_modelo(Capacidades)
    /\ pc' = "resolver" /\ chamador' = "principal" /\ etapa' = 1
    /\ UNCHANGED <<entregadores, dados, analises, locais, restrito>>

\* resolver_modelo up to the call of the solver
Resolver_Submeter ==
    /\ pc = "resolver"
    /\ fase' = "Submitted"
    /\ pc' = "solving"
    /\ UNCHANGED <<entregadores, dados, modelo, x_vars, t_vars, status, resultado,
                   retorno, chamador, etapa, analises, locais, restrito>>

\* modelo.solve(solver) returns: GLPK's outcome, within timeLimit or not
Solver_Otimo ==
    /\ pc = "solving"
    /\ \E x \in Otimas(ViaveisBase(modelo)) :
          /\ x_vars' = x
          /\ t_vars' = CalculoTempo(x)
    /\ status' = "Optimal"
    /\ fase' = FaseDoStatus("Optimal")
    /\ pc' = "solved"
    /\ UNCHANGED <<entregadores, dados, modelo, resultado, retorno, chamador, etapa,
                   analises, locais, restrito>>

Solver_Inviavel ==
    /\ pc = "solving"
    /\ ViaveisBase(modelo) = {}
    /\ status' = "Infeasible"
    /\ fase' = FaseDoStatus("Infeasible")
    /\ pc' = "solved"
    /\ UNCHANGED <<entregadores, dados, modelo, x_vars, t_vars, resultado, retorno,
                   chamador, etapa, analises, locais, restrito>>

Solver_TempoEsgotado ==
    /\ pc = "solving"
    /\ status' = "Undefined"
    /\ fase' = FaseDoStatus("Undefined")
    /\ pc' = "solved"
    /\ UNCHANGED <<entregadores, dados, modelo, x_vars, t_vars, resultado, retorno,
                   chamador, etapa, analises, locais, restrito>>

\* resolver_modelo after the solver returned: extract on Optimal, else return False
Resolver_Retorno ==
    /\ pc = "solved"
    /\ retorno' = RetornoDoStatus(status)
    /\ IF RetornoDoStatus(status)
       THEN /\ resultado' = extrair_resultado(x_vars, t_vars)
            /\ avisos' = avisos \o Aviso(extrair_resultado(x_vars, t_vars))
            /\ fase' = "Extracted"
       ELSE UNCHANGED <<resultado, avisos, fase>>
    /\ pc' = "returned"
    /\ UNCHANGED <<entregadores, tabelas, tarefas, modelo, x_vars, t_vars, status,
                   chamador, etapa, analises, locais, restrito>>

Principal_Fim ==
    /\ pc = "returned" /\ chamador = "principal"
    /\ pc' = "idle" /\ chamador' = "none"
    /\ UNCHANGED <<entregadores, dados, otimizador, etapa, analises, locais, restrito>>

(***************************************************************************)
(* Scenario Runner: analise_sensibilidade_capacidade.                      *)
(***************************************************************************)
ComCapacidade(f) ==
    [i \in Entregadores |-> [entregadores[i] EXCEPT !.capacidade = f[i]]]

\* Faulty variant: every courier gets back one shared value, the first courier's.
RestaurarConstante(original) == ComCapacidade([i \in Entregadores |-> original[1]])

\* entregadores['Capacidade Máxima'] = <the copy taken before the scenario>
RestaurarCapacidade(original) == ComCapacidade(original)

RegistroSensibilidade(cap, r) ==
    [capacidade |-> cap,
     tempo_total |-> r.tempo_total,
     tempo_medio |-> r.tempo_medio,
     entregadores_usados |-> r.num_entregadores_usados,
     valor_objetivo |-> r.valor_objetivo]

Sweep_Inicio ==
    /\ pc = "idle" /\ etapa < 2
    /\ \E range_capacidade \in FaixasCapacidade :
          faixa' = [def |-> TRUE, cap |-> range_capacidade[1], fim |-> range_capacidade[2]]
    /\ capacidade_original' = Capacidades
    /\ resultados' = <<>>
    /\ pc' = "sweep_loop" /\ chamador' = "sweep" /\ etapa' = 2
    /\ UNCHANGED <<entregadores, dados, otimizador, analises, cenarios, restrito>>

\* one pass of the loop up to resolver_modelo: override every capacity, rebuild
Sweep_Iteracao ==
    /\ pc = "sweep_loop" /\ faixa.cap <= faixa.fim
    /\ entregadores' = ComCapacidade([i \in Entregadores |-> faixa.cap])
    /\ criar_modelo([i \in Entregadores |-> faixa.cap])
    /\ pc' = "resolver"
    /\ UNCHANGED <<dados, chamador, etapa, analises, locais, restrito>>

\* the rest of the pass: a record if resolver_modelo returned True
Sweep_Registrar ==
    /\ pc = "returned" /\ chamador = "sweep"
    /\ resultados' = IF retorno
                     THEN Append(resultados, RegistroSensibilidade(faixa.cap, resultado))
                     ELSE resultados
    /\ faixa' = [faixa EXCEPT !.cap = faixa.cap + 1]
    /\ pc' = "sweep_loop"
    /\ UNCHANGED <<entregadores, dados, otimizador, chamador, etapa, analises,
                   capacidade_original, cenarios, restrito>>

\* after the loop: restore the capacities, store the table
Sweep_Fim ==
    /\ pc = "sweep_loop" /\ faixa.cap > faixa.fim
    /\ entregadores' = RestaurarCapacidade(capacidade_original)
    /\ analises' = [analises EXCEPT
                       !.sensibilidade_capacidade = [def |-> TRUE, linhas |-> resultados]]
    /\ capacidade_original' = Nenhum /\ faixa' = Nenhum /\ resultados' = <<>>
    /\ pc' = "idle" /\ chamador' = "none"
    /\ UNCHANGED <<dados, otimizador, etapa, cenarios, restrito>>

(***************************************************************************)
(* otimizacao_com_restricoes_tempo: its own problem, its own solver call   *)
(* (no time limit), its own extraction.                                    *)
(***************************************************************************)
ResultadoRestrito(x) ==
    [def |-> TRUE,
     valor_objetivo |-> ObjetivoPonderado(CalculoTempo(x)),
     alocacoes |-> Alocacoes(x, CalculoTempo(x)),
     tempo_total |-> Soma(CalculoTempo(x), Pedidos),
     restricoes_atendidas |-> TRUE]

\* the problem it builds and hands to the solver
ModeloRestrito(prazo) ==
    [def |-> TRUE,
     capacidade |-> Capacidades,
     tempo_max_expresso |-> prazo[1],
     tempo_max_prioritario |-> prazo[2],
     fase |-> "Submitted",
     x |-> {}]

Restricoes_Submeter ==
    /\ pc = "idle" /\ etapa < 3
    /\ \E prazo \in Prazos : restrito' = ModeloRestrito(prazo)
    /\ pc' = "restrito_solving" /\ etapa' = 3
    /\ UNCHANGED <<entregadores, dados, otimizador, chamador, analises, locais>>

\* otimizacao_com_restricoes_tempo called once more on the same analyzer
Restricoes_Novamente ==
    /\ pc = "idle" /\ etapa = 3
    /\ \E prazo \in Prazos : restrito' = ModeloRestrito(prazo)
    /\ pc' = "restrito_solving"
    /\ UNCHANGED <<entregadores, dados, otimizador, chamador, etapa, analises, locais>>

Restrito_Solver_Otimo ==
    /\ pc = "restrito_solving"
    /\ \E x \in Otimas(ViaveisRestrito(restrito)) :
          restrito' = [restrito EXCEPT !.fase = FaseDoStatus("Optimal"), !.x = x]
    /\ pc' = "restrito_solved"
    /\ UNCHANGED <<entregadores, dados, otimizador, chamador, etapa, analises, locais>>

Restrito_Solver_Inviavel ==
    /\ pc = "restrito_solving"
    /\ ViaveisRestrito(restrito) = {}
    /\ restrito' = [restrito EXCEPT !.fase = FaseDoStatus("Infeasible")]
    /\ pc' = "restrito_solved"
    /\ UNCHANGED <<entregadores, dados, otimizador, chamador, etapa, analises, locais>>

\* Faulty variant: the Solution is also written into the optimizer's resultado.
Restricoes_Retorno_EmResultado ==
    /\ pc = "restrito_solved"
    /\ IF restrito.fase = "Optimal"
       THEN /\ analises' = [analises EXCEPT
                               !.otimizacao_restrita = ResultadoRestrito(restrito.x)]
            /\ restrito' = [restrito EXCEPT !.fase = "Extracted"]
            /\ resultado' = extrair_resultado(restrito.x, CalculoTempo(restrito.x))
       ELSE UNCHANGED <<analises, restrito, resultado>>
    /\ pc' = "idle"
    /\ UNCHANGED <<entregadores, dados, modelo, x_vars, t_vars, status, retorno, fase,
                   chamador, etapa, locais>>

\* after the solver returned: store the result on Optimal, else return None
Restricoes_Retorno ==
    /\ pc = "restrito_solved"
    /\ IF restrito.fase = "Optimal"
       THEN /\ analises' = [analises EXCEPT
                               !.otimizacao_restrita = ResultadoRestrito(restrito.x)]
            /\ restrito' = [restrito EXCEPT !.fase = "Extracted"]
       ELSE UNCHANGED <<analises, restrito>>
    /\ pc' = "idle"
    /\ UNCHANGED <<entregadores, dados, otimizador, chamador, etapa, locais>>

(***************************************************************************)
(* Scenario Runner: comparar_cenarios.                                     *)
(***************************************************************************)
CenarioDe(tempo_total, tempo_medio, usados) ==
    [def |-> TRUE, tempo_total |-> tempo_total, tempo_medio |-> tempo_medio,
     entregadores_usados |-> usados]

\* Faulty variant: the half rounded up, plus one.
CapacidadeMetadeParaCima(c) == (c + 1) \div 2 + 1

CapacidadeReduzida(c) == c \div 2 + 1

\* up to resolver_modelo: the two stored scenarios, then the reduced capacities
Comparar_Inicio ==
    /\ pc = "idle" /\ etapa < 4
    /\ cenarios' =
          [def |-> TRUE,
           Original |->
              IF resultado.def
              THEN CenarioDe(resultado.tempo_total, resultado.tempo_medio,
                             resultado.num_entregadores_usados)
              ELSE Nenhum,
           Com_Restricoes_Tempo |->
              IF analises.otimizacao_restrita.def
              THEN CenarioDe(analises.otimizacao_restrita.tempo_total,
                             Media(analises.otimizacao_restrita.tempo_total,
                                   Cardinality(analises.otimizacao_restrita.alocacoes)),
                             Cardinality({a.entregador_idx :
                                a \in analises.otimizacao_restrita.alocacoes}))
              ELSE Nenhum,
           Capacidade_Reduzida |-> Nenhum]
    /\ capacidade_original' = Capacidades
    /\ entregadores' =
          ComCapacidade([i \in Entregadores |-> CapacidadeReduzida(entregadores[i].capacidade)])
    /\ criar_modelo([i \in Entregadores |-> CapacidadeReduzida(entregadores[i].capacidade)])
    /\ pc' = "resolver" /\ chamador' = "comparar" /\ etapa' = 4
    /\ UNCHANGED <<dados, analises, faixa, resultados, restrito>>

\* after resolver_modelo: the third scenario, restore, store the table
Comparar_Fim ==
    /\ pc = "returned" /\ chamador = "comparar"
    /\ entregadores' = RestaurarCapacidade(capacidade_original)
    /\ analises' = [analises EXCEPT !.comparacao_cenarios =
          IF retorno
          THEN [cenarios EXCEPT !.Capacidade_Reduzida =
                   CenarioDe(resultado.tempo_total, resultado.tempo_medio,
                             resultado.num_entregadores_usados)]
          ELSE cenarios]
    /\ capacidade_original' = Nenhum /\ cenarios' = Nenhum
    /\ pc' = "idle" /\ chamador' = "none"
    /\ UNCHANGED <<dados, otimizador, etapa, faixa, resultados, restrito>>

(***************************************************************************)
(* The Result Extractor on its own: extrair_resultado applied to any       *)
(* values of the assignment variables, after a solve reported Optimal.     *)
(***************************************************************************)
InitExtrator ==
    /\ \E capacidade \in [LinhasEntregadores -> 0..MaxCapacidade],
          velocidade \in Velocidades :
          entregadores = [i \in LinhasEntregadores |->
                             [capacidade |-> capacidade[i], velocidade |-> velocidade[i]]]
    /\ pedidos \in [LinhasPedidos -> [prioridade : Prioridades,
                                distancia_km : Distancias,
                                tempo_preparo_min : TemposPreparo,
                                tempo_deslocamento_min : TemposCliente]]
    /\ modelo = [def |-> TRUE, completo |-> TRUE, capacidade |-> Capacidades]
    /\ x_vars \in Atribuicoes
    /\ t_vars = CalculoTempo(x_vars)
    /\ status = "Optimal"
    /\ resultado = Nenhum
    /\ retorno = FALSE
    /\ fase = FaseDoStatus("Optimal")
    /\ pc = "solved"
    /\ chamador = "principal"
    /\ etapa = 4
    /\ analises = [sensibilidade_capacidade |-> Nenhum,
                   otimizacao_restrita |-> Nenhum,
                   comparacao_cenarios |-> Nenhum]
    /\ capacidade_original = Nenhum
    /\ faixa = Nenhum
    /\ resultados = <<>>
    /\ cenarios = Nenhum
    /\ restrito = Nenhum
    /\ capacidade_carregada = Capacidades
    /\ bruto = Nenhum
    /\ preprocessado = TRUE
    /\ avisos = <<>>
    /\ tarefas = Nenhum

NextExtrator ==
    \/ Resolver_Retorno
    \/ Principal_Fim

SpecExtrator == InitExtrator /\ [][NextExtrator]_vars

(***************************************************************************)
(* The pipeline from the loaded tables to the model: carregar_dados has    *)
(* read the tables, then preprocessar_dados and criar_modelo are called    *)
(* by main, exemplo_completo or executar_analise_completa.  A table is a   *)
(* sequence of rows; a missing number is NaN.  The data are small: speeds  *)
(* and capacities that are missing, negative, zero or good; an order whose *)
(* distance is missing or whose restaurant is not in the table.            *)
(***************************************************************************)
NaN == 0 - 9999

VelocidadesBrutas == {NaN, 0 - 30, 0, 30}
CapacidadesBrutas == {NaN, 0 - 1, 1}
CEPs == {0, 1}
DistanciasBrutas == {NaN, 10}
NomesRestaurante == {"Restaurante A", "Desconhecido"}
Chamadores == {"main", "exemplo_completo", "executar_analise_completa"}

\* self.restaurantes as mapa_restaurante_cep: Restaurante -> CEP
mapa_restaurante_cep ==
    [r \in {"Restaurante A", "Restaurante B"} |-> IF r = "Restaurante A" THEN 0 ELSE 1]

\* dropna(subset = the numeric columns) on each table
LimparEntregadores(tabela) ==
    SelectSeq(tabela, LAMBDA r : r.velocidade # NaN /\ r.capacidade # NaN)

LimparPedidos(tabela) ==
    SelectSeq(tabela, LAMBDA r : r.distancia_km # NaN /\ r.tempo_preparo_min # NaN
                                    /\ r.tempo_deslocamento_min # NaN)

\* the orders made up when the cleaning left none; 2.0 + 0.5 i km is <<4 + i, 2>>
dados_exemplo ==
    [n \in 1..5 |->
        [prioridade |-> ((n - 1) % 3) + 1,
         distancia_km |-> <<4 + (n - 1), 2>>,
         tempo_preparo_min |-> 15 + (n - 1) * 2,
         tempo_deslocamento_min |-> 10 + (n - 1) * 3,
         nome_restaurante |-> "Restaurante Exemplo"]]

InitPipeline ==
    /\ entregadores \in [LinhasEntregadores -> [capacidade : CapacidadesBrutas,
                                                velocidade : VelocidadesBrutas,
                                                cep : CEPs]]
    /\ pedidos \in [LinhasPedidos -> [prioridade : {3},
                                      distancia_km : DistanciasBrutas,
                                      tempo_preparo_min : TemposPreparo,
                                      tempo_deslocamento_min : TemposCliente,
                                      nome_restaurante : NomesRestaurante]]
    /\ bruto = [def |-> TRUE, entregadores |-> entregadores, pedidos |-> pedidos]
    /\ preprocessado = FALSE
    /\ avisos = <<>>
    /\ modelo = Nenhum
    /\ x_vars = {}
    /\ t_vars = <<>>
    /\ status = "Not Solved"
    /\ resultado = Nenhum
    /\ retorno = FALSE
    /\ fase = "None"
    /\ pc = "carregado"
    /\ chamador \in Chamadores
    /\ etapa = 0
    /\ analises = [sensibilidade_capacidade |-> Nenhum,
                   otimizacao_restrita |-> Nenhum,
                   comparacao_cenarios |-> Nenhum]
    /\ capacidade_original = Nenhum
    /\ faixa = Nenhum
    /\ resultados = <<>>
    /\ cenarios = Nenhum
    /\ restrito = Nenhum
    /\ capacidade_carregada = Capacidades
    /\ tarefas = Nenhum

\* preprocessar_dados: drop the rows with a missing number, make up orders if
\* none is left, return False only if no courier is left
Preprocessar ==
    /\ pc = "carregado"
    /\ entregadores' = LimparEntregadores(entregadores)
    /\ pedidos' = IF Len(LimparPedidos(pedidos)) = 0
                  THEN dados_exemplo
                  ELSE LimparPedidos(pedidos)
    /\ preprocessado' = (Len(LimparEntregadores(entregadores)) # 0)
    /\ pc' = "preprocessado"
    /\ UNCHANGED <<otimizador, chamador, etapa, analises, locais, restrito,
                   capacidade_carregada, bruto, tarefas, avisos>>

\* main returns when preprocessar_dados returned False
Pipeline_Encerrar ==
    /\ pc = "preprocessado" /\ chamador = "main" /\ ~preprocessado
    /\ pc' = "encerrado"
    /\ UNCHANGED <<entregadores, dados, otimizador, chamador, etapa, analises,
                   locais, restrito>>

\* criar_modelo after preprocessar_dados; only main looks at what it returned
Pipeline_CriarModelo ==
    /\ pc = "preprocessado"
    /\ chamador = "main" => preprocessado
    /\ criar_modelo(Capacidades)
    /\ pc' = "resolver"
    /\ UNCHANGED <<entregadores, dados, chamador, etapa, analises, locais, restrito>>

\* criar_modelo when the division by a zero speed raises (plain Python numbers):
\* ZeroDivisionError leaves the new problem without R2, R3 and its variables
Pipeline_CriarModelo_Excecao ==
    /\ pc = "preprocessado"
    /\ chamador = "main" => preprocessado
    /\ Pedidos # {} /\ \E i \in Entregadores : entregadores[i].velocidade = 0
    /\ modelo' = [def |-> TRUE, completo |-> FALSE]
    /\ pc' = "ZeroDivisionError"
    /\ UNCHANGED <<entregadores, dados, x_vars, t_vars, status, resultado, retorno,
                   fase, chamador, etapa, analises, locais, restrito>>

NextPipeline ==
    \/ Preprocessar
    \/ Pipeline_Encerrar
    \/ Pipeline_CriarModelo
    \/ Pipeline_CriarModelo_Excecao

SpecPipeline == InitPipeline /\ [][NextPipeline]_vars

(***************************************************************************)
(* The deadline variant called more than once on one analyzer, as a        *)
(* caller trying several pairs of deadlines does.                          *)
(***************************************************************************)
NextPrazos ==
    \/ Restricoes_Submeter
    \/ Restricoes_Novamente
    \/ Restrito_Solver_Otimo
    \/ Restrito_Solver_Inviavel
    \/ Restricoes_Retorno

SpecPrazos == Init /\ [][NextPrazos]_vars

(***************************************************************************)
(* Two scenario methods of one analyzer running at once, one thread each:  *)
(* analise_sensibilidade_capacidade and comparar_cenarios.  The optimizer  *)
(* (its couriers' table, modelo, resultado) is shared; each thread has its  *)
(* locals.  A step is one statement or call of the method; a solve runs to *)
(* completion within its step.                                             *)
(***************************************************************************)
FaixasConcorrentes == {<<1, 1>>}

InitConcorrente ==
    /\ InitAnalisador
    /\ \E range_capacidade \in FaixasConcorrentes :
          tarefas = [def |-> TRUE,
                     sweep |-> [pc |-> "inicio",
                                capacidade_original |-> Nenhum,
                                cap |-> range_capacidade[1],
                                fim |-> range_capacidade[2],
                                resultados |-> <<>>,
                                retorno |-> FALSE],
                     comparar |-> [pc |-> "inicio",
                                   cap_original |-> Nenhum,
                                   cenarios |-> Nenhum,
                                   retorno |-> FALSE]]

\* capacidade_original = entregadores['Capacidade Máxima'].copy()
Sweep_T_Copiar ==
    /\ tarefas.sweep.pc = "inicio"
    /\ tarefas' = [tarefas EXCEPT !.sweep.capacidade_original = Capacidades,
                                  !.sweep.pc = "laco"]
    /\ UNCHANGED <<entregadores, entrada, otimizador, pc, chamador, etapa, analises,
                   locais, restrito>>

\* entregadores['Capacidade Máxima'] = cap
Sweep_T_Alterar ==
    /\ tarefas.sweep.pc = "laco" /\ tarefas.sweep.cap <= tarefas.sweep.fim
    /\ entregadores' = ComCapacidade([i \in Entregadores |-> tarefas.sweep.cap])
    /\ tarefas' = [tarefas EXCEPT !.sweep.pc = "criar"]
    /\ UNCHANGED <<entrada, otimizador, pc, chamador, etapa, analises, locais, restrito>>

\* otimizador.criar_modelo() of either thread, on the table as it is now
Tarefa_CriarModelo(t) ==
    /\ tarefas[t].pc = "criar"
    /\ criar_modelo(Capacidades)
    /\ tarefas' = [tarefas EXCEPT ![t].pc = "resolver"]
    /\ UNCHANGED <<entregadores, entrada, pc, chamador, etapa, analises, locais, restrito>>

\* otimizador.resolver_modelo() of either thread, on the model that is there now
Tarefa_Resolver(t) ==
    /\ tarefas[t].pc = "resolver"
    /\ \/ \E x \in Otimas(ViaveisBase(modelo)) :
             /\ x_vars' = x
             /\ t_vars' = CalculoTempo(x)
             /\ status' = "Optimal"
             /\ resultado' = extrair_resultado(x, CalculoTempo(x))
             /\ avisos' = avisos \o Aviso(extrair_resultado(x, CalculoTempo(x)))
             /\ fase' = "Extracted"
       \/ /\ ViaveisBase(modelo) = {}
          /\ status' = "Infeasible"
          /\ fase' = FaseDoStatus("Infeasible")
          /\ UNCHANGED <<x_vars, t_vars, resultado, avisos>>
    /\ retorno' = RetornoDoStatus(status')
    /\ tarefas' = [tarefas EXCEPT ![t].retorno = RetornoDoStatus(status'),
                                  ![t].pc = "registrar"]
    /\ UNCHANGED <<entregadores, tabelas, modelo, pc, chamador, etapa, analises,
                   locais, restrito>>

\* the record of this capacity, from otimizador.resultado as it is now
Sweep_T_Registrar ==
    /\ tarefas.sweep.pc = "registrar"
    /\ tarefas' = [tarefas EXCEPT
          !.sweep.resultados =
              IF tarefas.sweep.retorno
              THEN Append(@, RegistroSensibilidade(tarefas.sweep.cap, resultado))
              ELSE @,
          !.sweep.cap = @ + 1,
          !.sweep.pc = "laco"]
    /\ UNCHANGED <<entregadores, entrada, otimizador, pc, chamador, etapa, analises,
                   locais, restrito>>

\* after the loop: restore from the copy, store the table
Sweep_T_Restaurar ==
    /\ tarefas.sweep.pc = "laco" /\ tarefas.sweep.cap > tarefas.sweep.fim
    /\ entregadores' = RestaurarCapacidade(tarefas.sweep.capacidade_original)
    /\ analises' = [analises EXCEPT !.sensibilidade_capacidade =
                       [def |-> TRUE, linhas |-> tarefas.sweep.resultados]]
    /\ tarefas' = [tarefas EXCEPT !.sweep.pc = "fim"]
    /\ UNCHANGED <<entrada, otimizador, pc, chamador, etapa, locais, restrito>>

\* the two stored scenarios, then cap_original = entregadores['Capacidade Máxima'].copy()
Comparar_T_Copiar ==
    /\ tarefas.comparar.pc = "inicio"
    /\ tarefas' = [tarefas EXCEPT
          !.comparar.cenarios =
              [def |-> TRUE,
               Original |->
                  IF resultado.def
                  THEN CenarioDe(resultado.tempo_total, resultado.tempo_medio,
                                 resultado.num_entregadores_usados)
                  ELSE Nenhum,
               Com_Restricoes_Tempo |-> Nenhum,
               Capacidade_Reduzida |-> Nenhum],
          !.comparar.cap_original = Capacidades,
          !.comparar.pc = "reduzir"]
    /\ UNCHANGED <<entregadores, entrada, otimizador, pc, chamador, etapa, analises,
                   locais, restrito>>

\* entregadores['Capacidade Máxima'] = entregadores['Capacidade Máxima'] // 2 + 1
Comparar_T_Reduzir ==
    /\ tarefas.comparar.pc = "reduzir"
    /\ entregadores' =
          ComCapacidade([i \in Entregadores |-> CapacidadeReduzida(entregadores[i].capacidade)])
    /\ tarefas' = [tarefas EXCEPT !.comparar.pc = "criar"]
    /\ UNCHANGED <<entrada, otimizador, pc, chamador, etapa, analises, locais, restrito>>

\* the third scenario from otimizador.resultado as it is now, restore, store
Comparar_T_Restaurar ==
    /\ tarefas.comparar.pc = "registrar"
    /\ entregadores' = RestaurarCapacidade(tarefas.comparar.cap_original)
    /\ analises' = [analises EXCEPT !.comparacao_cenarios =
          IF tarefas.comparar.retorno
          THEN [tarefas.comparar.cenarios EXCEPT !.Capacidade_Reduzida =
                   CenarioDe(resultado.tempo_total, resultado.tempo_medio,
                             resultado.num_entregadores_usados)]
          ELSE tarefas.comparar.cenarios]
    /\ tarefas' = [tarefas EXCEPT !.comparar.pc = "fim"]
    /\ UNCHANGED <<entrada, otimizador, pc, chamador, etapa, locais, restrito>>

NextConcorrente ==
    \/ Sweep_T_Copiar
    \/ Sweep_T_Alterar
    \/ Tarefa_CriarModelo("sweep")
    \/ Tarefa_Resolver("sweep")
    \/ Sweep_T_Registrar
    \/ Sweep_T_Restaurar
    \/ Comparar_T_Copiar
    \/ Comparar_T_Reduzir
    \/ Tarefa_CriarModelo("comparar")
    \/ Tarefa_Resolver("comparar")
    \/ Comparar_T_Restaurar

SpecConcorrente == InitConcorrente /\ [][NextConcorrente]_vars

(***************************************************************************)
(* The base solve on the tables of a small instance: two couriers of       *)
(* capacity 2 and 1 and speed 30 km/h, based at two different CEPs; three  *)
(* orders of 10 minutes of preparation and 5 of customer leg, the first    *)
(* two from the restaurant at the first courier's CEP, the third from the  *)
(* restaurant at the second courier's.                                     *)
(***************************************************************************)
InitExemplo ==
    /\ entregadores = <<[capacidade |-> 2, velocidade |-> 30, cep |-> 0],
                        [capacidade |-> 1, velocidade |-> 30, cep |-> 1]>>
    /\ \E prioridade \in [1..3 -> Prioridades], distancia_km \in [1..3 -> Distancias] :
          pedidos = [j \in 1..3 |->
                        [prioridade |-> prioridade[j],
                         distancia_km |-> distancia_km[j],
                         tempo_preparo_min |-> 10,
                         tempo_deslocamento_min |-> 5,
                         nome_restaurante |->
                            IF j = 3 THEN "Restaurante B" ELSE "Restaurante A"]]
    /\ modelo = Nenhum
    /\ x_vars = {}
    /\ t_vars = [j \in Pedidos |-> SemValor]
    /\ status = "Not Solved"
    /\ resultado = Nenhum
    /\ retorno = FALSE
    /\ fase = "None"
    /\ pc = "idle"
    /\ chamador = "none"
    /\ etapa = 0
    /\ analises = [sensibilidade_capacidade |-> Nenhum,
                   otimizacao_restrita |-> Nenhum,
                   comparacao_cenarios |-> Nenhum]
    /\ capacidade_original = Nenhum
    /\ faixa = Nenhum
    /\ resultados = <<>>
    /\ cenarios = Nenhum
    /\ restrito = Nenhum
    /\ capacidade_carregada = Capacidades
    /\ bruto = Nenhum
    /\ preprocessado = TRUE
    /\ avisos = <<>>
    /\ tarefas = Nenhum

NextExemplo ==
    \/ Principal_CriarModelo
    \/ Resolver_Submeter
    \/ Solver_Otimo
    \/ Solver_TempoEsgotado
    \/ Resolver_Retorno
    \/ Principal_Fim

SpecExemplo == InitExemplo /\ [][NextExemplo]_vars

Next ==
    \/ Principal_CriarModelo
    \/ Resolver_Submeter
    \/ Solver_Otimo
    \/ Solver_Inviavel
    \/ Solver_TempoEsgotado
    \/ Resolver_Retorno
    \/ Principal_Fim
    \/ Sweep_Inicio
    \/ Sweep_Iteracao
    \/ Sweep_Registrar
    \/ Sweep_Fim
    \/ Restricoes_Submeter
    \/ Restrito_Solver_Otimo
    \/ Restrito_Solver_Inviavel
    \/ Restricoes_Retorno
    \/ Comparar_Inicio
    \/ Comparar_Fim

Spec == Init /\ [][Next]_vars

(***************************************************************************)
(* The same with a solver call that can fail: modelo.solve raises          *)
(* (PulpSolverError when glpsol cannot be run or leaves no solution file). *)
(* resolver_modelo and the scenario methods catch nothing, so the          *)
(* exception leaves the method that was running, with its locals.          *)
(***************************************************************************)
Solver_Excecao ==
    /\ pc = "solving"
    /\ pc' = "excecao"
    /\ UNCHANGED <<entregadores, dados, otimizador, chamador, etapa, analises, locais,
                   restrito>>

NextExcecao ==
    \/ Next
    \/ Solver_Excecao

SpecExcecao == Init /\ [][NextExcecao]_vars

(***************************************************************************)
(* The assignment problem as a min-cost flow: each order is sent to one    *)
(* courier, a courier takes at most its capacity, an edge costs the        *)
(* delivery time times the order's priority.                               *)
(***************************************************************************)
Fluxos == [Pedidos -> Entregadores]

FluxoViavel(a, caps) ==
    \A i \in Entregadores : Cardinality({j \in Pedidos : a[j] = i}) <= caps[i]

CustoFluxo(a) ==
    Soma([j \in Pedidos |-> TempoEntrega(a[j], j) * pedidos[j].prioridade], Pedidos)

MinCustoFluxo(caps) ==
    LET custos == {CustoFluxo(a) : a \in {b \in Fluxos : FluxoViavel(b, caps)}}
    IN  CHOOSE c \in custos : \A d \in custos : c <= d

SomaCapacidades(caps) == Soma(caps, Entregadores)

PedidosDe(alocacoes, i) == {a \in alocacoes : a.entregador_idx = i}

(***************************************************************************)
(* C1 (Coverage): a Solution held in resultado allocates as many orders as *)
(* there are, each order index in exactly one allocation; and a solve of a *)
(* feasible base model that ran to completion returns True.                *)
(***************************************************************************)
C1_Coverage ==
    /\ resultado.def =>
          /\ resultado.num_pedidos_alocados = resultado.num_pedidos_total
          /\ \A j \in Pedidos :
                Cardinality({a \in resultado.alocacoes : a.pedido_idx = j}) = 1
    /\ (pc = "returned" /\ fase # "TimedOut"
          /\ \E a \in Fluxos : FluxoViavel(a, modelo.capacidade)) => retorno

C1_Witness ==
    /\ pc = "returned" /\ retorno
    /\ resultado.num_pedidos_alocados = NumPedidos
    /\ resultado.num_entregadores_usados = 2

(***************************************************************************)
(* C2 (Capacity respected): when resolver_modelo has returned True, no     *)
(* courier has more allocations in resultado than its 'Capacidade Máxima'  *)
(* at that moment, which is the capacity the model was built with (base    *)
(* solve, sweep step and reduced-capacity scenario); and the deadline      *)
(* variant's stored Solution gives no courier more than the capacity its   *)
(* model was built with.                                                   *)
(***************************************************************************)
C2_CapacityRespected ==
    /\ (pc = "returned" /\ retorno) =>
          \A i \in Entregadores :
             /\ modelo.capacidade[i] = entregadores[i].capacidade
             /\ Cardinality(PedidosDe(resultado.alocacoes, i)) <= entregadores[i].capacidade
    /\ analises.otimizacao_restrita.def =>
          \A i \in Entregadores :
             Cardinality(PedidosDe(analises.otimizacao_restrita.alocacoes, i))
                <= restrito.capacidade[i]

C2_Witness ==
    /\ pc = "returned" /\ retorno /\ chamador = "sweep"
    /\ capacidade_carregada[1] # entregadores[1].capacidade
    /\ Cardinality(PedidosDe(resultado.alocacoes, 1)) = entregadores[1].capacidade
    /\ Cardinality(PedidosDe(resultado.alocacoes, 2)) >= 1
    /\ analises.otimizacao_restrita = Nenhum

(***************************************************************************)
(* C3 (Infeasibility detection): when the capacities a model was built     *)
(* with sum to less than the number of orders, the solver does not return  *)
(* Optimal (it returns Infeasible unless the time ran out), the attempt is *)
(* never extracted, resolver_modelo returns False, and the deadline        *)
(* variant stores no Solution.                                             *)
(***************************************************************************)
C3_InfeasibilityDetection ==
    /\ (pc \in {"solved", "returned"} /\ SomaCapacidades(modelo.capacidade) < NumPedidos) =>
          /\ status \in {"Infeasible", "Undefined"}
          /\ fase \in {"Infeasible", "TimedOut"}
          /\ x_vars = {}
          /\ pc = "returned" => ~retorno
    /\ (restrito.def /\ pc # "restrito_solving"
          /\ SomaCapacidades(restrito.capacidade) < NumPedidos) =>
          /\ restrito.fase = "Infeasible"
          /\ analises.otimizacao_restrita = Nenhum

C3_Witness ==
    /\ pc = "returned" /\ status = "Infeasible" /\ ~retorno
    /\ SomaCapacidades(modelo.capacidade) < NumPedidos
    /\ SomaCapacidades(modelo.capacidade) > 0

(***************************************************************************)
(* C4 (Optimality): the objective value of the Solution of a solve that    *)
(* returned Optimal is the least cost of the min-cost flow with the        *)
(* capacities of the model.                                                *)
(***************************************************************************)
C4_Optimality ==
    (pc = "returned" /\ retorno) =>
        resultado.valor_objetivo = MinCustoFluxo(modelo.capacidade)

C4_Witness ==
    /\ pc = "returned" /\ retorno
    /\ resultado.valor_objetivo = MinCustoFluxo(modelo.capacidade)
    /\ resultado.valor_objetivo > resultado.tempo_total
    /\ resultado.num_entregadores_usados = 2
    /\ pedidos[1].prioridade # pedidos[2].prioridade
    /\ pedidos[1].distancia_km # pedidos[2].distancia_km

(***************************************************************************)
(* C5 (Restoration): whenever no scenario method is running, every         *)
(* courier's 'Capacidade Máxima' is the value it was loaded with, so each  *)
(* of analise_sensibilidade_capacidade and comparar_cenarios returns with  *)
(* the capacities it was called with.                                      *)
(***************************************************************************)
C5_Restoration ==
    pc = "idle" => \A i \in Entregadores :
                      entregadores[i].capacidade = capacidade_carregada[i]

C5_Witness ==
    /\ pc = "idle"
    /\ analises.sensibilidade_capacidade.def
    /\ Len(analises.sensibilidade_capacidade.linhas) = 1
    /\ analises.comparacao_cenarios.def
    /\ analises.comparacao_cenarios.Capacidade_Reduzida = Nenhum
    /\ capacidade_carregada[1] # capacidade_carregada[2]
    /\ capacidade_carregada[2] = MaxCapacidade
    /\ \A i \in Entregadores : entregadores[i].capacidade = capacidade_carregada[i]

(***************************************************************************)
(* C6 (Deadline variant correctness): in the Solution that                 *)
(* otimizacao_com_restricoes_tempo stores, every order of priority 3 has a *)
(* realized time within tempo_max_expresso and every order of priority 2   *)
(* within tempo_max_prioritario.  (The witness shows an order of priority  *)
(* 1 beyond both.)                                                         *)
(***************************************************************************)
C6_DeadlineCorrectness ==
    analises.otimizacao_restrita.def =>
        \A a \in analises.otimizacao_restrita.alocacoes :
            /\ a.tempo_entrega = TempoEntrega(a.entregador_idx, a.pedido_idx)
            /\ a.prioridade = 3 => a.tempo_entrega <= restrito.tempo_max_expresso
            /\ a.prioridade = 2 => a.tempo_entrega <= restrito.tempo_max_prioritario

C6_Witness ==
    /\ analises.otimizacao_restrita.def
    /\ \E a \in analises.otimizacao_restrita.alocacoes : a.prioridade = 3
    /\ \E a \in analises.otimizacao_restrita.alocacoes :
          /\ a.prioridade = 1
          /\ a.tempo_entrega > restrito.tempo_max_prioritario

(***************************************************************************)
(* C7 (Capacity-sweep monotonicity): of two records of a sweep, the one    *)
(* with the larger capacity has an objective no larger than the other's.   *)
(***************************************************************************)
Monotona(linhas) ==
    \A a, b \in 1..Len(linhas) :
        linhas[a].capacidade < linhas[b].capacidade =>
            linhas[b].valor_objetivo <= linhas[a].valor_objetivo

C7_SweepMonotonicity ==
    /\ Monotona(resultados)
    /\ analises.sensibilidade_capacidade.def =>
          Monotona(analises.sensibilidade_capacidade.linhas)

C7_Witness ==
    /\ analises.sensibilidade_capacidade.def
    /\ \E a, b \in 1..Len(analises.sensibilidade_capacidade.linhas) :
          LET linhas == analises.sensibilidade_capacidade.linhas
          IN  /\ linhas[a].capacidade < linhas[b].capacidade
              /\ linhas[b].valor_objetivo < linhas[a].valor_objetivo

(***************************************************************************)
(* C8 (Solve-attempt state machine): a solve attempt on the optimizer's    *)
(* model goes Built -> Submitted -> one of Optimal, Infeasible, Unbounded, *)
(* TimedOut, and only Optimal goes on to Extracted; resultado changes only *)
(* in the step from Optimal to Extracted.  The deadline variant's attempt  *)
(* is built and submitted in one step, then goes the same way, and its     *)
(* Solution is stored only in the step from Optimal to Extracted.          *)
(***************************************************************************)
Terminais == {"Optimal", "Infeasible", "Unbounded", "TimedOut"}

FaseRestrito == IF restrito.def THEN restrito.fase ELSE "None"

C8_SolveStateMachine ==
    [][ /\ fase' # fase =>
              \/ fase' = "Built"
              \/ fase = "Built" /\ fase' = "Submitted"
              \/ fase = "Submitted" /\ fase' \in Terminais
              \/ fase = "Optimal" /\ fase' = "Extracted"
        /\ resultado' # resultado => fase = "Optimal" /\ fase' = "Extracted"
        /\ FaseRestrito' # FaseRestrito =>
              \/ FaseRestrito' = "Submitted"
              \/ FaseRestrito = "Submitted" /\ FaseRestrito' \in Terminais
              \/ FaseRestrito = "Optimal" /\ FaseRestrito' = "Extracted"
        /\ analises'.otimizacao_restrita # analises.otimizacao_restrita =>
              FaseRestrito = "Optimal" /\ FaseRestrito' = "Extracted"
      ]_vars

C8_Witness ==
    /\ pc = "returned" /\ fase = "Extracted" /\ chamador = "comparar"
    /\ analises.sensibilidade_capacidade.def
    /\ Len(analises.sensibilidade_capacidade.linhas) = 0
    /\ FaseRestrito = "Infeasible"

C10_MissingAllocation ==
    (pc \in {"returned", "idle"} /\ ~AtribuicaoUnica(x_vars)) =>
        (~retorno /\ ~resultado.def)

(***************************************************************************)
(* What the loaded tables must satisfy: a courier with a positive speed    *)
(* and a capacity that is not negative, an order with its numbers present  *)
(* and a restaurant of the restaurant table.                               *)
(***************************************************************************)
EntregadorValido(r) ==
    r.velocidade # NaN /\ r.capacidade # NaN /\ r.velocidade > 0 /\ r.capacidade >= 0

PedidoValido(r) ==
    r.distancia_km # NaN /\ r.nome_restaurante \in DOMAIN mapa_restaurante_cep

EntradaValida ==
    /\ \A i \in DOMAIN bruto.entregadores : EntregadorValido(bruto.entregadores[i])
    /\ \A j \in DOMAIN bruto.pedidos : PedidoValido(bruto.pedidos[j])

(***************************************************************************)
(* C11 (Input validity fails fast): a model is built from loaded tables    *)
(* only if every loaded record is valid and preprocessar_dados reported    *)
(* success, and preprocessing neither drops a record nor replaces the      *)
(* orders by other data.                                                   *)
(***************************************************************************)
C11_InputValidity ==
    bruto.def =>
        /\ modelo.def => (EntradaValida /\ preprocessado)
        /\ pc # "carregado" =>
              (entregadores = bruto.entregadores /\ pedidos = bruto.pedidos)

(***************************************************************************)
(* C12 (Speed guard): criar_modelo gets through the cost estimator only    *)
(* with couriers of positive speed: no travel time it computed is          *)
(* negative or infinite, and it did not end in a division by zero.         *)
(***************************************************************************)
C12_SpeedGuard ==
    (bruto.def /\ modelo.def) =>
        /\ pc # "ZeroDivisionError"
        /\ \A i \in Entregadores : entregadores[i].velocidade > 0
        /\ pedidos # dados_exemplo =>
              \A i \in Entregadores, j \in Pedidos :
                  /\ calcular_tempo_deslocamento(i, j) >= 0
                  /\ calcular_tempo_deslocamento(i, j) < Infinito

(***************************************************************************)
(* C13 (Cost formula): the cost of a pair in the model that was built is   *)
(* (distance from the courier's base to the order's restaurant / speed) *  *)
(* 60 + preparation + customer leg.  The distance between two CEPs is that *)
(* of two points of a line, 10 km apart when the CEPs differ.              *)
(***************************************************************************)
DistanciaEntre(cep1, cep2) == IF cep1 = cep2 THEN 0 ELSE 10

CustoPorLocalizacao(i, j) ==
    (DistanciaEntre(entregadores[i].cep, mapa_restaurante_cep[pedidos[j].nome_restaurante])
        * 60) \div entregadores[i].velocidade
    + pedidos[j].tempo_preparo_min + pedidos[j].tempo_deslocamento_min

C13_CostFormula ==
    (bruto.def /\ pc = "resolver" /\ EntradaValida) =>
        \A i \in Entregadores, j \in Pedidos :
            TempoEntrega(i, j) = CustoPorLocalizacao(i, j)

(***************************************************************************)
(* C14 (Scenario failure isolation): the table of a capacity sweep has an  *)
(* entry for every capacity of the range, and the table of a comparison    *)
(* has an entry for the reduced-capacity scenario, whether or not that     *)
(* scenario's solve succeeded.                                             *)
(***************************************************************************)
C14_ScenarioFailureIsolation ==
    /\ analises.sensibilidade_capacidade.def =>
          \A f \in FaixasCapacidade : \A c \in f[1]..f[2] :
              \E k \in 1..Len(analises.sensibilidade_capacidade.linhas) :
                  analises.sensibilidade_capacidade.linhas[k].capacidade = c
    /\ analises.comparacao_cenarios.def =>
          analises.comparacao_cenarios.Capacidade_Reduzida # Nenhum

(***************************************************************************)
(* C17 (Comparison does not mutate Solutions): no step of                  *)
(* comparar_cenarios changes otimizador.resultado or the stored Solution   *)
(* of the deadline variant.                                                *)
(***************************************************************************)
C17_ComparisonDoesNotMutate ==
    [][(chamador = "comparar" \/ chamador' = "comparar") =>
          /\ resultado' = resultado
          /\ analises'.otimizacao_restrita = analises.otimizacao_restrita
      ]_vars

(***************************************************************************)
(* C19 (Time definition): after a solve returned Optimal each order j has  *)
(* one courier i with x[i,j] = 1 and T[j] is the cost of (i, j); the       *)
(* tempo_entrega of every allocation of resultado is the cost of its pair. *)
(***************************************************************************)
C19_TimeDefinition ==
    /\ (pc \in {"solved", "returned"} /\ status = "Optimal") =>
          \A j \in Pedidos :
              /\ Cardinality({i \in Entregadores : <<i, j>> \in x_vars}) = 1
              /\ \A i \in Entregadores :
                    <<i, j>> \in x_vars => t_vars[j] = TempoEntrega(i, j)
    /\ resultado.def =>
          \A a \in resultado.alocacoes :
              a.tempo_entrega = TempoEntrega(a.entregador_idx, a.pedido_idx)

C19_Witness ==
    /\ pc = "returned" /\ retorno /\ chamador = "principal"
    /\ \E a, b \in resultado.alocacoes :
          /\ a.entregador_idx # b.entregador_idx
          /\ a.tempo_entrega # b.tempo_entrega
          /\ a.tempo_entrega = TempoEntrega(a.entregador_idx, a.pedido_idx)
          /\ a.tempo_entrega # TempoEntrega(b.entregador_idx, a.pedido_idx)

(***************************************************************************)
(* C20 (Capacity sweep coverage): while a step of the sweep is built and   *)
(* solved every courier's capacity is the capacity under test, which is    *)
(* in the range; the capacities of the records collected so far ascend and *)
(* are below the one under test; and the stored table has one record for   *)
(* each capacity of the range, in ascending order.                         *)
(***************************************************************************)
C20_SweepCoverage ==
    /\ (chamador = "sweep" /\ pc \in {"resolver", "solving", "solved", "returned"}) =>
          /\ faixa.cap <= faixa.fim
          /\ \A i \in Entregadores :
                /\ entregadores[i].capacidade = faixa.cap
                /\ modelo.capacidade[i] = faixa.cap
          /\ \A k \in 1..Len(resultados) : resultados[k].capacidade < faixa.cap
    /\ analises.sensibilidade_capacidade.def =>
          \E f \in FaixasCapacidade :
              /\ Len(analises.sensibilidade_capacidade.linhas) = f[2] - f[1] + 1
              /\ \A k \in 1..Len(analises.sensibilidade_capacidade.linhas) :
                    analises.sensibilidade_capacidade.linhas[k].capacidade = f[1] + k - 1

(***************************************************************************)
(* C15 (Deadline-variant outcome): when otimizacao_com_restricoes_tempo    *)
(* has returned from an infeasible deadline model, no Solution is          *)
(* registered as the deadline scenario's result; and the objective of a    *)
(* registered Solution is the sum of priority * time of its allocations.   *)
(***************************************************************************)
C15_DeadlineVariantOutcome ==
    /\ (pc = "idle" /\ FaseRestrito = "Infeasible") =>
          analises.otimizacao_restrita = Nenhum
    /\ analises.otimizacao_restrita.def =>
          analises.otimizacao_restrita.valor_objetivo =
              Soma([j \in Pedidos |->
                       Soma([i \in Entregadores |->
                                IF \E a \in analises.otimizacao_restrita.alocacoes :
                                      a.entregador_idx = i /\ a.pedido_idx = j
                                THEN TempoEntrega(i, j) * pedidos[j].prioridade
                                ELSE 0], Entregadores)], Pedidos)

(***************************************************************************)
(* C16 (Concurrent scenario isolation): with a capacity sweep and a        *)
(* comparison interleaved on one optimizer, the copy each takes is the     *)
(* baseline, the model each is about to solve has its own perturbed        *)
(* capacities (the sweep's capacity under test, the comparison's reduced   *)
(* baseline), and when both have finished the capacities are the baseline. *)
(***************************************************************************)
C16_ConcurrentIsolation ==
    tarefas.def =>
        /\ tarefas.sweep.pc # "inicio" =>
              tarefas.sweep.capacidade_original = capacidade_carregada
        /\ tarefas.comparar.pc # "inicio" =>
              tarefas.comparar.cap_original = capacidade_carregada
        /\ tarefas.sweep.pc = "resolver" =>
              \A i \in Entregadores : modelo.capacidade[i] = tarefas.sweep.cap
        /\ tarefas.comparar.pc = "resolver" =>
              \A i \in Entregadores :
                  modelo.capacidade[i] = CapacidadeReduzida(capacidade_carregada[i])
        /\ (tarefas.sweep.pc = "fim" /\ tarefas.comparar.pc = "fim") =>
              Capacidades = capacidade_carregada

(***************************************************************************)
(* C18 (Worked example): on the instance of two couriers (capacity 2 and   *)
(* 1, speed 30) and three orders, where by location the first courier is   *)
(* nearer to the first two orders and the second courier to the third, a   *)
(* solve that ran to completion is Optimal, allocates orders 1 and 2 to    *)
(* courier 1 and order 3 to courier 2, and its objective is the sum of     *)
(* priority * realized time of the three allocations.                      *)
(***************************************************************************)
C18_WorkedExample ==
    (/\ pc = "returned" /\ status # "Undefined"
     /\ CustoPorLocalizacao(1, 1) < CustoPorLocalizacao(2, 1)
     /\ CustoPorLocalizacao(1, 2) < CustoPorLocalizacao(2, 2)
     /\ CustoPorLocalizacao(2, 3) < CustoPorLocalizacao(1, 3)) =>
        /\ status = "Optimal" /\ retorno
        /\ {<<a.entregador_idx, a.pedido_idx>> : a \in resultado.alocacoes}
              = {<<1, 1>>, <<1, 2>>, <<2, 3>>}
        /\ resultado.valor_objetivo =
              Soma([j \in Pedidos |->
                       Soma([i \in Entregadores |->
                                IF \E a \in resultado.alocacoes :
                                      /\ a.entregador_idx = i /\ a.pedido_idx = j
                                      /\ a.tempo_entrega = TempoEntrega(i, j)
                                THEN TempoEntrega(i, j) * pedidos[j].prioridade
                                ELSE 0], Entregadores)], Pedidos)

(***************************************************************************)
(* C21 (Reduced-capacity rule): while comparar_cenarios builds and solves  *)
(* its third scenario each courier's capacity, in the table and in the     *)
(* model, is floor(c / 2) + 1 of the capacity c it was loaded with; when   *)
(* the method has returned, the capacities are the loaded ones and the     *)
(* entry 'Capacidade_Reduzida' holds the aggregates of the Solution of     *)
(* that solve, if it returned True.                                        *)
(***************************************************************************)
C21_ReducedCapacityRule ==
    /\ (chamador = "comparar" /\ pc \in {"resolver", "solving", "solved", "returned"}) =>
          \A i \in Entregadores :
              /\ entregadores[i].capacidade = capacidade_carregada[i] \div 2 + 1
              /\ modelo.capacidade[i] = capacidade_carregada[i] \div 2 + 1
    /\ (pc = "idle" /\ analises.comparacao_cenarios.def) =>
          /\ \A i \in Entregadores : entregadores[i].capacidade = capacidade_carregada[i]
          /\ retorno =>
                analises.comparacao_cenarios.Capacidade_Reduzida =
                    [def |-> TRUE,
                     tempo_total |-> resultado.tempo_total,
                     tempo_medio |-> resultado.tempo_medio,
                     entregadores_usados |-> resultado.num_entregadores_usados]

C21_Witness ==
    /\ pc = "idle" /\ analises.comparacao_cenarios.def /\ retorno
    /\ capacidade_carregada[1] = 0 /\ capacidade_carregada[2] = 1
    /\ modelo.capacidade[1] = 1 /\ modelo.capacidade[2] = 1
    /\ analises.comparacao_cenarios.Capacidade_Reduzida.entregadores_usados = 2
    /\ analises.comparacao_cenarios.Original = Nenhum

(***************************************************************************)
(* The base problem on a reduced set of edges: the pairs (courier, order)  *)
(* whose cost is within the order's deadline (tempo_max_expresso for       *)
(* priority 3, tempo_max_prioritario for priority 2, none for priority 1). *)
(***************************************************************************)
PrazoDe(j, m) ==
    CASE pedidos[j].prioridade = 3 -> m.tempo_max_expresso
      [] pedidos[j].prioridade = 2 -> m.tempo_max_prioritario
      [] OTHER -> Infinito

ArestasNoPrazo(m) ==
    {a \in Entregadores \X Pedidos : TempoEntrega(a[1], a[2]) <= PrazoDe(a[2], m)}

FluxosNoPrazo(m) ==
    {a \in Fluxos : /\ FluxoViavel(a, m.capacidade)
                    /\ \A j \in Pedidos : <<a[j], j>> \in ArestasNoPrazo(m)}

ParesDoFluxo(a) == {<<a[j], j>> : j \in Pedidos}

(***************************************************************************)
(* C22 (Deadline variant as edge removal): the feasible assignments of the *)
(* deadline-constrained model are those of the base problem on the edges   *)
(* within the deadlines; a solve of it that ended Optimal has the least    *)
(* cost among them, and one that ended Infeasible had none of them.        *)
(***************************************************************************)
C22_DeadlineAsEdgeRemoval ==
    restrito.def =>
        /\ ViaveisRestrito(restrito) = {ParesDoFluxo(a) : a \in FluxosNoPrazo(restrito)}
        /\ FaseRestrito \in {"Optimal", "Extracted"} =>
              /\ \E a \in FluxosNoPrazo(restrito) : ParesDoFluxo(a) = restrito.x
              /\ \A a \in FluxosNoPrazo(restrito) :
                    ObjetivoPonderado(CalculoTempo(restrito.x)) <= CustoFluxo(a)
        /\ FaseRestrito = "Infeasible" <=>
              (pc # "restrito_solving" /\ FluxosNoPrazo(restrito) = {})

C22_Witness ==
    /\ restrito.def /\ FaseRestrito = "Optimal"
    /\ Cardinality(FluxosNoPrazo(restrito)) = 1
    /\ ObjetivoPonderado(CalculoTempo(restrito.x)) > MinCustoFluxo(restrito.capacidade)

(***************************************************************************)
(* C23 (Deadline variant is a distinct model instance): no step of         *)
(* otimizacao_com_restricoes_tempo changes the optimizer's model, its      *)
(* variables' values, its status, its resultado or a courier's capacity;   *)
(* and a solve of the optimizer's model that returns Optimal returns an    *)
(* optimum of the base constraints, whatever deadlines were asked before.  *)
(***************************************************************************)
C23_DeadlineDistinctInstance ==
    [][ /\ (pc \in {"restrito_solving", "restrito_solved"} \/ pc' = "restrito_solving") =>
              /\ modelo' = modelo
              /\ x_vars' = x_vars /\ t_vars' = t_vars /\ status' = status
              /\ resultado' = resultado
              /\ entregadores' = entregadores
        /\ (pc = "solving" /\ status' = "Optimal") =>
              /\ RestricoesBase(x_vars', modelo.capacidade)
              /\ ObjetivoPonderado(t_vars') = MinCustoFluxo(modelo.capacidade)
      ]_vars

C23_Witness ==
    /\ pc = "returned" /\ retorno /\ chamador = "comparar"
    /\ analises.otimizacao_restrita.def
    /\ \E a \in resultado.alocacoes :
          a.prioridade = 3 /\ a.tempo_entrega > restrito.tempo_max_expresso
    /\ resultado.valor_objetivo < analises.otimizacao_restrita.valor_objetivo

(***************************************************************************)
(* C24 (Under-allocation is surfaced): a Solution with fewer allocations   *)
(* than orders carries a flag of it, so that a Solution without the flag   *)
(* has as many allocations as there are orders.                            *)
(***************************************************************************)
C24_UnderAllocationSurfaced ==
    resultado.def =>
        \/ resultado.num_pedidos_alocados = resultado.num_pedidos_total
        \/ \E campo \in DOMAIN resultado \ {"def", "valor_objetivo", "tempo_total",
                                           "tempo_medio", "alocacoes",
                                           "num_entregadores_usados",
                                           "num_pedidos_alocados", "num_pedidos_total"} :
              TRUE

(***************************************************************************)
(* C25 (Result freshness): when resolver_modelo has returned, resultado is *)
(* empty or is the Solution of the model just solved; after a solve that   *)
(* did not end Optimal it is empty.                                        *)
(***************************************************************************)
C25_ResultFreshness ==
    pc = "returned" =>
        \/ ~resultado.def
        \/ /\ retorno
           /\ resultado = extrair_resultado(x_vars, t_vars)
           /\ RestricoesBase(x_vars, modelo.capacidade)

(***************************************************************************)
(* C26 ('Original' entry): the entry 'Original' of the table of            *)
(* comparar_cenarios holds the aggregates of an optimal Solution of the    *)
(* base model with the capacities as loaded.                               *)
(***************************************************************************)
AgregadosBase(x) ==
    [def |-> TRUE,
     tempo_total |-> Soma(CalculoTempo(x), Pedidos),
     tempo_medio |-> <<Soma(CalculoTempo(x), Pedidos), Cardinality(Pedidos)>>,
     entregadores_usados |-> Cardinality({a[1] : a \in x})]

C26_OriginalEntry ==
    (analises.comparacao_cenarios.def /\ analises.comparacao_cenarios.Original.def) =>
        \E x \in Otimas(ViaveisBase([capacidade |-> capacidade_carregada])) :
            analises.comparacao_cenarios.Original = AgregadosBase(x)

(***************************************************************************)
(* C29 (The reduced-capacity scenario never raises a capacity): while      *)
(* comparar_cenarios builds and solves its third scenario no courier has a *)
(* capacity above the one it was loaded with.                              *)
(***************************************************************************)
C29_ReducedNeverRaises ==
    (chamador = "comparar" /\ pc \in {"resolver", "solving", "solved", "returned"}) =>
        \A i \in Entregadores :
            /\ modelo.capacidade[i] <= capacidade_carregada[i]
            /\ entregadores[i].capacidade <= capacidade_carregada[i]

(***************************************************************************)
(* C27 (Restoration on abnormal exit): when an exception raised by the     *)
(* solve has left analise_sensibilidade_capacidade or comparar_cenarios,   *)
(* every courier's capacity is the one it had before the method.           *)
(***************************************************************************)
C27_RestorationOnException ==
    (pc = "excecao" /\ chamador \in {"sweep", "comparar"}) =>
        \A i \in Entregadores : entregadores[i].capacidade = capacidade_carregada[i]

(***************************************************************************)
(* C28 (Base-model feasibility is a capacity question): the model built by *)
(* criar_modelo has a feasible assignment if and only if the capacities it *)
(* was built with sum to at least the number of orders; a solve that ran   *)
(* to completion returns True exactly then; and a record of a capacity     *)
(* sweep has a capacity c with c * (number of couriers) >= (number of      *)
(* orders).                                                                *)
(***************************************************************************)
TemCapacidade(caps) == SomaCapacidades(caps) >= Cardinality(Pedidos)

RegistrosComCapacidade(linhas) ==
    \A k \in 1..Len(linhas) :
        linhas[k].capacidade * Cardinality(Entregadores) >= Cardinality(Pedidos)

C30_DeadlinesNeverImprove ==
    /\ analises.otimizacao_restrita.def =>
          /\ \E a \in Fluxos : FluxoViavel(a, restrito.capacidade)
          /\ analises.otimizacao_restrita.valor_objetivo
                >= MinCustoFluxo(restrito.capacidade)
    /\ (/\ analises.otimizacao_restrita.def /\ resultado.def /\ retorno
        /\ pc \in {"idle", "returned"}
        /\ modelo.capacidade = restrito.capacidade) =>
          analises.otimizacao_restrita.valor_objetivo >= resultado.valor_objetivo

C30_Witness ==
    /\ analises.otimizacao_restrita.def /\ resultado.def /\ retorno /\ pc = "idle"
    /\ modelo.capacidade = restrito.capacidade
    /\ analises.otimizacao_restrita.valor_objetivo > resultado.valor_objetivo

=============================================================================
